---- MODULE Spec2Model ----
(***************************************************************************)
(* A model of the gocui compositor (Gui): the z-ordered view list, the    *)
(* focus pointer, the keybinding table and the MainLoop that dispatches   *)
(* terminal events and user callbacks.                                    *)
(*                                                                         *)
(* Views are Go pointers: a view object lives in `heap` under an id, the   *)
(* slice g.views is a sequence of ids and g.currentView is an id or Nil.   *)
(* A call's return values are kept in `ret`.  Read-only calls (View,       *)
(* ViewPosition, ViewByPosition) are operators over the state.             *)
(***************************************************************************)
EXTENDS Integers, Sequences, FiniteSets, TLC

\* ------------------------------------------------------------------ bounds
\* Coordinates handed to SetView and mouse positions range over -1..MaxCoord.
MaxCoord == 1
\* SetKeybinding is not called once the table holds MaxKb bindings.
MaxKb == 2
\* PollEvent delivers at most MaxEvents events.
MaxEvents == 2
\* Update is called at most MaxUpdates times.
MaxUpdates == 1
\* SetManager is not called while MaxSenders resize senders are outstanding.
MaxSenders == 1
MaxExec == 3
MaxFrame == 4
MaxTerm == 3
MaxTitle == 2

Coord == -1 .. MaxCoord

\* ----------------------------------------------------------- error values
NoErr == "nil"
ErrQuit == "quit"
ErrUnknownView == "unknown view"
ErrInvalidDimensions == "invalid dimensions"
ErrInvalidName == "invalid name"
ErrUnknownType == "unknown type"

\* ------------------------------------------------------------ view objects
\* The names callers use for views; "" is the empty (invalid) name.
Names == {"a", "b", "c"}
NameArgs == Names \cup {""}

\* A view object's address.  Go addresses are observable only through
\* equality, so the object in the list under name n is given the address n,
\* and an object that left the list while currentView still refers to it is
\* given the address Detached (there is at most one: only currentView keeps
\* a reference to a view outside the list).
Detached == "*detached*"
ViewIds == Names \cup {Detached}
\* The nil Viewer.
Nil == ""

\* The content of an id no reference points to.
NoView ==
    [name |-> "", x0 |-> 0, y0 |-> 0, x1 |-> 0, y1 |-> 0, tainted |-> FALSE,
     cx |-> 0, cy |-> 0, editable |-> FALSE, editor |-> FALSE]

newView(name, x0, y0, x1, y1) ==
    [name |-> name, x0 |-> x0, y0 |-> y0, x1 |-> x1, y1 |-> y1, tainted |-> TRUE,
     cx |-> 0, cy |-> 0, editable |-> FALSE, editor |-> TRUE]

SetBounds(v, x0, y0, x1, y1) ==
    [v EXCEPT !.x0 = x0, !.y0 = y0, !.x1 = x1, !.y1 = y1]

GetBounds(v) == <<v.x0, v.y0, v.x1, v.y1>>

Invalidate(v) == [v EXCEPT !.tainted = TRUE]

\* The size of the content of a view: the bounds less the frame.
Size(v) == <<v.x1 - v.x0 - 1, v.y1 - v.y0 - 1>>

ErrInvalidPoint == "invalid point"

\* View.SetCursor: the cursor is stored only when it lies in the content.
SetCursor(v, x, y) ==
    IF x < 0 \/ x >= Size(v)[1] \/ y < 0 \/ y >= Size(v)[2]
    THEN [view |-> v, err |-> ErrInvalidPoint]
    ELSE [view |-> [v EXCEPT !.cx = x, !.cy = y], err |-> NoErr]

\* View.Draw: the view is rendered and is no longer invalidated.
Draw(v) == [v EXCEPT !.tainted = FALSE]

VARIABLES
    views,        \* g.views: the addresses of the views, bottom first
    heap,         \* the view objects, by address
    currentView,  \* g.currentView
    keybindings,  \* g.keybindings
    managers,     \* g.managers
    tbSenders,    \* goroutines of SetManager that have a resize event to send
    ret,          \* the last call on the Gui and what it returned
    tbEvents,     \* the channel g.tbEvents
    userEvents,   \* the channel g.userEvents
    userSenders,  \* goroutines of Update: how many hold each callback
    pc,           \* where MainLoop is: "new", "select", "drain", "done"
    loopErr,      \* what MainLoop returned (NoErr while it runs)
    polled,       \* how many events PollEvent has delivered
    updates,      \* how many times Update was called
    last,         \* the last event or callback MainLoop dispatched
    nexec,        \* handlers, callbacks, layouts and flushes MainLoop executed
    Cursor,       \* g.Cursor: whether the cursor is displayed
    hwCursor,     \* the cursor of the terminal: hidden, or shown at (x, y)
    pass,         \* the last flush of MainLoop: the managers called, the views
                  \* drawn and whether the terminal was flushed
    frame         \* the last frame drawn: the view bounds, the terminal size,
                  \* the title, the SetRune calls made and the error returned

guiVars == <<views, heap, currentView, keybindings, managers, tbSenders, ret>>

loopVars == <<tbEvents, userEvents, userSenders, pc, loopErr, polled, updates, last, nexec>>

drawVars == <<Cursor, hwCursor, pass, frame>>

vars == <<guiVars, loopVars, drawVars>>

\* ----------------------------------------------------------------- helpers
Range(s) == {s[i] : i \in DOMAIN s}

Min(S) == CHOOSE m \in S : \A k \in S : m <= k

\* append(s[:i], s[i+1:]...)
RemoveAt(s, i) == SubSeq(s, 1, i - 1) \o SubSeq(s, i + 1, Len(s))

\* The ids some reference of the Gui still points to.
Live(vs, cur) == Range(vs) \cup ({cur} \ {Nil})

\* Objects nothing refers to any more are reclaimed.
Collect(h, vs, cur) == [i \in ViewIds |-> IF i \in Live(vs, cur) THEN h[i] ELSE NoView]

\* The address of a freshly allocated view (`&View{...}` in newView).
NewId(name) == name

\* Where a reference to view v points once v has left the list.
Moved(ref, v) == IF ref = v THEN Detached ELSE ref

\* The heap once view v has left the list: the object stays reachable, at
\* Detached, when currentView refers to it.
Unlink(h, v, cur) == IF cur = v THEN [h EXCEPT ![Detached] = h[v], ![v] = NoView] ELSE [h EXCEPT ![v] = NoView]

\* `for i, v := range g.views { if v.Name() == name {...} }` from index i on:
\* the first index whose view has the name, 0 when the loop falls through.
RECURSIVE IndexFrom(_, _)
IndexFrom(name, i) ==
    IF i > Len(views) THEN 0
    ELSE IF heap[views[i]].name = name THEN i
    ELSE IndexFrom(name, i + 1)

IndexOf(name) == IndexFrom(name, 1)

\* What the last call was and what it returned; args holds the geometry
\* handed to SetView and the managers handed to SetManager.
Result(op, name, v, err) ==
    [op |-> op, name |-> name, args |-> <<>>, v |-> v, err |-> err]

SetViewResult(name, args, v, err) ==
    [op |-> "SetView", name |-> name, args |-> args, v |-> v, err |-> err]

\* -------------------------------------------------------------- read calls
View(name) ==
    LET i == IndexOf(name)
    IN  IF i = 0 THEN [v |-> Nil, err |-> ErrUnknownView]
        ELSE [v |-> views[i], err |-> NoErr]

ViewPosition(name) ==
    LET i == IndexOf(name)
    IN  IF i = 0 THEN [pos |-> <<0, 0, 0, 0>>, err |-> ErrUnknownView]
        ELSE [pos |-> GetBounds(heap[views[i]]), err |-> NoErr]

\* Whether (x, y) lies strictly inside the bounds of view object v.
Inside(v, x, y) ==
    LET b == GetBounds(v)
    IN  x > b[1] /\ x < b[3] /\ y > b[2] /\ y < b[4]

\* `for i := len(g.views); i > 0; i-- {...}` from i down: the loop of
\* ViewByPosition, which returns at the first view the point is inside of.
RECURSIVE PositionFrom(_, _, _)
PositionFrom(x, y, i) ==
    IF i = 0 THEN [v |-> Nil, err |-> ErrUnknownView]
    ELSE IF Inside(heap[views[i]], x, y) THEN [v |-> views[i], err |-> NoErr]
    ELSE PositionFrom(x, y, i - 1)

\* The views are tried bottom first.
RECURSIVE PositionUpFrom(_, _, _)
PositionUpFrom(x, y, i) ==
    IF i > Len(views) THEN [v |-> Nil, err |-> ErrUnknownView]
    ELSE IF Inside(heap[views[i]], x, y) THEN [v |-> views[i], err |-> NoErr]
    ELSE PositionUpFrom(x, y, i + 1)

ViewByPosition_BottomFirst(x, y) == PositionUpFrom(x, y, 1)

ViewByPosition(x, y) == PositionFrom(x, y, Len(views))

CurrentView == currentView

\* ------------------------------------------------------------ view calls
\* Variants of SetView with one slip each, used to show what the properties
\* below depend on.
\* The lookup of the name is skipped: a view is always created.
SetView_AlwaysCreate(name, x0, y0, x1, y1) ==
    IF x0 >= x1 \/ y0 >= y1
    THEN /\ ret' = SetViewResult(name, <<x0, y0, x1, y1>>, Nil, ErrInvalidDimensions)
         /\ UNCHANGED <<views, heap, currentView, keybindings, managers, tbSenders>>
    ELSE IF name = ""
    THEN /\ ret' = SetViewResult(name, <<x0, y0, x1, y1>>, Nil, ErrInvalidName)
         /\ UNCHANGED <<views, heap, currentView, keybindings, managers, tbSenders>>
    ELSE LET v == NewId(name)
         IN  /\ heap' = [heap EXCEPT ![v] = newView(name, x0, y0, x1, y1)]
             /\ views' = Append(views, v)
             /\ ret' = SetViewResult(name, <<x0, y0, x1, y1>>, v, ErrUnknownView)
             /\ UNCHANGED <<currentView, keybindings, managers, tbSenders>>

\* A created view is returned with a nil error.
SetView_NoSignal(name, x0, y0, x1, y1) ==
    IF x0 >= x1 \/ y0 >= y1
    THEN /\ ret' = SetViewResult(name, <<x0, y0, x1, y1>>, Nil, ErrInvalidDimensions)
         /\ UNCHANGED <<views, heap, currentView, keybindings, managers, tbSenders>>
    ELSE IF name = ""
    THEN /\ ret' = SetViewResult(name, <<x0, y0, x1, y1>>, Nil, ErrInvalidName)
         /\ UNCHANGED <<views, heap, currentView, keybindings, managers, tbSenders>>
    ELSE IF View(name).err = NoErr
    THEN LET v == View(name).v
         IN  /\ heap' = [heap EXCEPT ![v] = Invalidate(SetBounds(@, x0, y0, x1, y1))]
             /\ ret' = SetViewResult(name, <<x0, y0, x1, y1>>, v, NoErr)
             /\ UNCHANGED <<views, currentView, keybindings, managers, tbSenders>>
    ELSE LET v == NewId(name)
         IN  /\ heap' = [heap EXCEPT ![v] = newView(name, x0, y0, x1, y1)]
             /\ views' = Append(views, v)
             /\ ret' = SetViewResult(name, <<x0, y0, x1, y1>>, v, NoErr)
             /\ UNCHANGED <<currentView, keybindings, managers, tbSenders>>

\* An updated view is also raised to the top of the list.
SetView_Raise(name, x0, y0, x1, y1) ==
    IF x0 >= x1 \/ y0 >= y1
    THEN /\ ret' = SetViewResult(name, <<x0, y0, x1, y1>>, Nil, ErrInvalidDimensions)
         /\ UNCHANGED <<views, heap, currentView, keybindings, managers, tbSenders>>
    ELSE IF name = ""
    THEN /\ ret' = SetViewResult(name, <<x0, y0, x1, y1>>, Nil, ErrInvalidName)
         /\ UNCHANGED <<views, heap, currentView, keybindings, managers, tbSenders>>
    ELSE IF View(name).err = NoErr
    THEN LET v == View(name).v
         IN  /\ heap' = [heap EXCEPT ![v] = Invalidate(SetBounds(@, x0, y0, x1, y1))]
             /\ views' = Append(RemoveAt(views, IndexOf(name)), v)
             /\ ret' = SetViewResult(name, <<x0, y0, x1, y1>>, v, NoErr)
             /\ UNCHANGED <<currentView, keybindings, managers, tbSenders>>
    ELSE LET v == NewId(name)
         IN  /\ heap' = [heap EXCEPT ![v] = newView(name, x0, y0, x1, y1)]
             /\ views' = Append(views, v)
             /\ ret' = SetViewResult(name, <<x0, y0, x1, y1>>, v, ErrUnknownView)
             /\ UNCHANGED <<currentView, keybindings, managers, tbSenders>>

\* An existing view is invalidated but keeps its old bounds.
SetView_NoResize(name, x0, y0, x1, y1) ==
    IF x0 >= x1 \/ y0 >= y1
    THEN /\ ret' = SetViewResult(name, <<x0, y0, x1, y1>>, Nil, ErrInvalidDimensions)
         /\ UNCHANGED <<views, heap, currentView, keybindings, managers, tbSenders>>
    ELSE IF name = ""
    THEN /\ ret' = SetViewResult(name, <<x0, y0, x1, y1>>, Nil, ErrInvalidName)
         /\ UNCHANGED <<views, heap, currentView, keybindings, managers, tbSenders>>
    ELSE IF View(name).err = NoErr
    THEN LET v == View(name).v
         IN  /\ heap' = [heap EXCEPT ![v] = Invalidate(@)]
             /\ ret' = SetViewResult(name, <<x0, y0, x1, y1>>, v, NoErr)
             /\ UNCHANGED <<views, currentView, keybindings, managers, tbSenders>>
    ELSE LET v == NewId(name)
         IN  /\ heap' = [heap EXCEPT ![v] = newView(name, x0, y0, x1, y1)]
             /\ views' = Append(views, v)
             /\ ret' = SetViewResult(name, <<x0, y0, x1, y1>>, v, ErrUnknownView)
             /\ UNCHANGED <<currentView, keybindings, managers, tbSenders>>

\* The geometry check uses > where the code uses >=.
SetView_StrictCheck(name, x0, y0, x1, y1) ==
    IF x0 > x1 \/ y0 > y1
    THEN /\ ret' = SetViewResult(name, <<x0, y0, x1, y1>>, Nil, ErrInvalidDimensions)
         /\ UNCHANGED <<views, heap, currentView, keybindings, managers, tbSenders>>
    ELSE IF name = ""
    THEN /\ ret' = SetViewResult(name, <<x0, y0, x1, y1>>, Nil, ErrInvalidName)
         /\ UNCHANGED <<views, heap, currentView, keybindings, managers, tbSenders>>
    ELSE IF View(name).err = NoErr
    THEN LET v == View(name).v
         IN  /\ heap' = [heap EXCEPT ![v] = Invalidate(SetBounds(@, x0, y0, x1, y1))]
             /\ ret' = SetViewResult(name, <<x0, y0, x1, y1>>, v, NoErr)
             /\ UNCHANGED <<views, currentView, keybindings, managers, tbSenders>>
    ELSE LET v == NewId(name)
         IN  /\ heap' = [heap EXCEPT ![v] = newView(name, x0, y0, x1, y1)]
             /\ views' = Append(views, v)
             /\ ret' = SetViewResult(name, <<x0, y0, x1, y1>>, v, ErrUnknownView)
             /\ UNCHANGED <<currentView, keybindings, managers, tbSenders>>

SetView(name, x0, y0, x1, y1) ==
    IF x0 >= x1 \/ y0 >= y1
    THEN /\ ret' = SetViewResult(name, <<x0, y0, x1, y1>>, Nil, ErrInvalidDimensions)
         /\ UNCHANGED <<views, heap, currentView, keybindings, managers, tbSenders>>
    ELSE IF name = ""
    THEN /\ ret' = SetViewResult(name, <<x0, y0, x1, y1>>, Nil, ErrInvalidName)
         /\ UNCHANGED <<views, heap, currentView, keybindings, managers, tbSenders>>
    ELSE IF View(name).err = NoErr
    THEN LET v == View(name).v
         IN  /\ heap' = [heap EXCEPT ![v] = Invalidate(SetBounds(@, x0, y0, x1, y1))]
             /\ ret' = SetViewResult(name, <<x0, y0, x1, y1>>, v, NoErr)
             /\ UNCHANGED <<views, currentView, keybindings, managers, tbSenders>>
    ELSE LET v == NewId(name)
         IN  /\ heap' = [heap EXCEPT ![v] = newView(name, x0, y0, x1, y1)]
             /\ views' = Append(views, v)
             /\ ret' = SetViewResult(name, <<x0, y0, x1, y1>>, v, ErrUnknownView)
             /\ UNCHANGED <<currentView, keybindings, managers, tbSenders>>

SetViewOnTop(name) ==
    LET i == IndexOf(name)
    IN  IF i = 0
        THEN /\ ret' = Result("SetViewOnTop", name, Nil, ErrUnknownView)
             /\ UNCHANGED <<views, heap, currentView, keybindings, managers, tbSenders>>
        ELSE /\ views' = Append(RemoveAt(views, i), views[i])
             /\ ret' = Result("SetViewOnTop", name, views[i], NoErr)
             /\ UNCHANGED <<heap, currentView, keybindings, managers, tbSenders>>

\* The view is appended, as in SetViewOnTop, instead of prepended.
SetViewOnBottom_AsTop(name) ==
    LET i == IndexOf(name)
    IN  IF i = 0
        THEN /\ ret' = Result("SetViewOnBottom", name, Nil, ErrUnknownView)
             /\ UNCHANGED <<views, heap, currentView, keybindings, managers, tbSenders>>
        ELSE /\ views' = Append(RemoveAt(views, i), views[i])
             /\ ret' = Result("SetViewOnBottom", name, views[i], NoErr)
             /\ UNCHANGED <<heap, currentView, keybindings, managers, tbSenders>>

SetViewOnBottom(name) ==
    LET i == IndexOf(name)
    IN  IF i = 0
        THEN /\ ret' = Result("SetViewOnBottom", name, Nil, ErrUnknownView)
             /\ UNCHANGED <<views, heap, currentView, keybindings, managers, tbSenders>>
        ELSE /\ views' = <<views[i]>> \o RemoveAt(views, i)
             /\ ret' = Result("SetViewOnBottom", name, views[i], NoErr)
             /\ UNCHANGED <<heap, currentView, keybindings, managers, tbSenders>>

DeleteView(name) ==
    LET i == IndexOf(name)
    IN  IF i = 0
        THEN /\ ret' = Result("DeleteView", name, Nil, ErrUnknownView)
             /\ UNCHANGED <<views, heap, currentView, keybindings, managers, tbSenders>>
        ELSE /\ views' = RemoveAt(views, i)
             /\ heap' = Unlink(heap, views[i], currentView)
             /\ currentView' = Moved(currentView, views[i])
             /\ ret' = Result("DeleteView", name, Nil, NoErr)
             /\ UNCHANGED <<keybindings, managers, tbSenders>>

SetCurrentView(name) ==
    LET i == IndexOf(name)
    IN  IF i = 0
        THEN /\ ret' = Result("SetCurrentView", name, Nil, ErrUnknownView)
             /\ UNCHANGED <<views, heap, currentView, keybindings, managers, tbSenders>>
        ELSE /\ currentView' = views[i]
             /\ heap' = Collect(heap, views, currentView')
             /\ ret' = Result("SetCurrentView", name, views[i], NoErr)
             /\ UNCHANGED <<views, keybindings, managers, tbSenders>>

\* ------------------------------------------------- calls on a view object
\* The program calls SetEditable and SetEditor on a view it holds; e is
\* FALSE for a nil Editor.
SetEditable(name, e) ==
    /\ IndexOf(name) # 0
    /\ heap' = [heap EXCEPT ![views[IndexOf(name)]].editable = e]
    /\ UNCHANGED <<views, currentView, keybindings, managers, tbSenders, ret>>

SetEditor(name, e) ==
    /\ IndexOf(name) # 0
    /\ heap' = [heap EXCEPT ![views[IndexOf(name)]].editor = e]
    /\ UNCHANGED <<views, currentView, keybindings, managers, tbSenders, ret>>

\* ------------------------------------------------------------ keybindings
\* A trigger handed to SetKeybinding is a Go interface{} value: its dynamic
\* type and its number.
KeyValue(k) == [type |-> "Key", val |-> k]
RuneValue(c) == [type |-> "rune", val |-> c]
OtherValue(n) == [type |-> "other", val |-> n]

getKey(key) ==
    IF key.type = "Key" THEN [key |-> key.val, ch |-> 0, err |-> NoErr]
    ELSE IF key.type = "rune" THEN [key |-> 0, ch |-> key.val, err |-> NoErr]
    ELSE [key |-> 0, ch |-> 0, err |-> ErrUnknownType]

newKeybinding(viewname, key, ch, mod, handler) ==
    [viewName |-> viewname, key |-> key, ch |-> ch, mod |-> mod, handler |-> handler]

SetKeybinding(viewname, key, mod, handler) ==
    /\ Len(keybindings) < MaxKb
    /\ LET k == getKey(key)
       IN  IF k.err # NoErr
           THEN /\ ret' = Result("SetKeybinding", viewname, Nil, k.err)
                /\ UNCHANGED <<views, heap, currentView, keybindings, managers, tbSenders>>
           ELSE /\ keybindings' = Append(keybindings, newKeybinding(viewname, k.key, k.ch, mod, handler))
                /\ ret' = Result("SetKeybinding", viewname, Nil, NoErr)
                /\ UNCHANGED <<views, heap, currentView, managers, tbSenders>>

ErrNotFound == "keybinding not found"

\* `for i, kb := range g.keybindings { if kb.viewName == viewname && ... }`
\* of DeleteKeybinding from index i on: the first index whose binding has
\* the scope, key, rune and modifier, 0 when the loop falls through.
RECURSIVE KbIndexFrom(_, _, _, _, _)
KbIndexFrom(viewname, k, ch, mod, i) ==
    IF i > Len(keybindings) THEN 0
    ELSE IF /\ keybindings[i].viewName = viewname
            /\ keybindings[i].ch = ch
            /\ keybindings[i].key = k
            /\ keybindings[i].mod = mod
         THEN i
    ELSE KbIndexFrom(viewname, k, ch, mod, i + 1)

DeleteResult(viewname, key, mod, err) ==
    [Result("DeleteKeybinding", viewname, Nil, err) EXCEPT !.args = <<key, mod>>]

\* A DeleteKeybinding that removes the binding registered last among those
\* that match.
DeleteKeybinding_Last(viewname, key, mod) ==
    LET k == getKey(key)
        m == {i \in DOMAIN keybindings :
                 KbIndexFrom(viewname, k.key, k.ch, mod, i) = i}
    IN  IF k.err # NoErr \/ m = {}
        THEN /\ ret' = DeleteResult(viewname, key, mod,
                                    IF k.err # NoErr THEN k.err ELSE ErrNotFound)
             /\ UNCHANGED <<views, heap, currentView, keybindings, managers, tbSenders>>
        ELSE /\ keybindings' = RemoveAt(keybindings, CHOOSE i \in m : \A j \in m : j <= i)
             /\ ret' = DeleteResult(viewname, key, mod, NoErr)
             /\ UNCHANGED <<views, heap, currentView, managers, tbSenders>>

DeleteKeybinding(viewname, key, mod) ==
    LET k == getKey(key)
    IN  IF k.err # NoErr
        THEN /\ ret' = DeleteResult(viewname, key, mod, k.err)
             /\ UNCHANGED <<views, heap, currentView, keybindings, managers, tbSenders>>
        ELSE LET i == KbIndexFrom(viewname, k.key, k.ch, mod, 1)
             IN  IF i = 0
                 THEN /\ ret' = DeleteResult(viewname, key, mod, ErrNotFound)
                      /\ UNCHANGED <<views, heap, currentView, keybindings, managers, tbSenders>>
                 ELSE /\ keybindings' = RemoveAt(keybindings, i)
                      /\ ret' = DeleteResult(viewname, key, mod, NoErr)
                      /\ UNCHANGED <<views, heap, currentView, managers, tbSenders>>

\* ---------------------------------------------------------------- managers
\* SetManager replaces the managers and resets views, focus and keybindings;
\* the goroutine it starts will send one resize event to tbEvents.
\* A SetManager that keeps the keybindings.
SetManager_KeepBindings(ms) ==
    /\ tbSenders < MaxSenders
    /\ managers' = ms
    /\ currentView' = Nil
    /\ views' = <<>>
    /\ heap' = Collect(heap, views', currentView')
    /\ tbSenders' = tbSenders + 1
    /\ ret' = [Result("SetManager", "", Nil, NoErr) EXCEPT !.args = ms]
    /\ UNCHANGED keybindings

SetManager(ms) ==
    /\ tbSenders < MaxSenders
    /\ managers' = ms
    /\ currentView' = Nil
    /\ views' = <<>>
    /\ keybindings' = <<>>
    /\ heap' = Collect(heap, views', currentView')
    /\ tbSenders' = tbSenders + 1
    /\ ret' = [Result("SetManager", "", Nil, NoErr) EXCEPT !.args = ms]

\* ------------------------------------------------------------- callbacks
\* Handlers, Update callbacks and managers are functions of the application.
\* Here each is one of: "ok" returns nil, "fail" returns an error of its own,
\* "quit" returns ErrQuit; a binding may also be registered with a nil handler.
NilHandler == "nil"
ErrHandler == "handler failed"
ErrCallback == "callback failed"
ErrLayout == "layout failed"
ErrTerminal == "terminal read failed"

HandlerErr(h) == IF h = "quit" THEN ErrQuit ELSE IF h = "fail" THEN ErrHandler ELSE NoErr

CallbackErr(f) == IF f = "quit" THEN ErrQuit ELSE IF f = "fail" THEN ErrCallback ELSE NoErr

LayoutErr(m) == IF m = "quit" THEN ErrQuit ELSE IF m = "fail" THEN ErrLayout ELSE NoErr

\* ---------------------------------------------------------------- events
KeyEvent(key, ch, mod) ==
    [type |-> "key", key |-> key, ch |-> ch, mod |-> mod, x |-> 0, y |-> 0, err |-> NoErr]

MouseEvent(key, x, y) ==
    [type |-> "mouse", key |-> key, ch |-> 0, mod |-> 0, x |-> x, y |-> y, err |-> NoErr]

ResizeEvent ==
    [type |-> "resize", key |-> 0, ch |-> 0, mod |-> 0, x |-> 0, y |-> 0, err |-> NoErr]

ErrorEvent(e) ==
    [type |-> "error", key |-> 0, ch |-> 0, mod |-> 0, x |-> 0, y |-> 0, err |-> e]

\* The capacity of g.tbEvents and of g.userEvents.
ChanCap == 20

\* ------------------------------------------------------ keybinding dispatch
matchKeypress(kb, key, ch, mod) == kb.key = key /\ kb.ch = ch /\ kb.mod = mod

matchView(kb, v) == kb.viewName = "" \/ (v # Nil /\ kb.viewName = heap[v].name)

\* Handlers that call the Gui: "unbind" calls
\* g.DeleteKeybinding(UnbindScope, 'q', 0), "unbindall" calls
\* g.DeleteKeybindings(UnbindScope), "reset" calls g.SetManager with
\* ResetManagers; each then returns nil.
UnbindScope == "a"
UnbindKey == RuneValue(113)
ResetManagers == <<"ok">>

\* While execKeybindings runs, `range g.keybindings` reads the array that
\* g.keybindings had when the loop began (arr, as many entries as the slice
\* was long), whereas the handlers work on g.keybindings as it is now (cur).
\* shared tells whether g.keybindings still is a slice of that array: then
\* the append of DeleteKeybinding moves entries inside the array the loop
\* reads.  fired lists the places of the loop at which a handler was called,
\* ran the bindings called and whether each was in g.keybindings when called.
StartDispatch ==
    [arr |-> keybindings, cur |-> keybindings, shared |-> TRUE, reset |-> FALSE,
     fired |-> <<>>, ran |-> <<>>, matched |-> FALSE]

\* The first index of slice s whose binding has the scope, key, rune and
\* modifier, from index i on; 0 if there is none.
RECURSIVE IndexIn(_, _, _, _, _, _)
IndexIn(s, viewname, k, ch, mod, i) ==
    IF i > Len(s) THEN 0
    ELSE IF s[i].viewName = viewname /\ s[i].ch = ch /\ s[i].key = k /\ s[i].mod = mod
         THEN i
    ELSE IndexIn(s, viewname, k, ch, mod, i + 1)

\* `g.keybindings = append(g.keybindings[:i], g.keybindings[i+1:]...)` seen
\* from the array the loop reads: the entries after i move down by one and
\* the last place the slice covered keeps its entry.
ShiftDown(arr, i, len) ==
    [j \in DOMAIN arr |-> IF j >= i /\ j < len THEN arr[j + 1] ELSE arr[j]]

\* DeleteKeybinding called by a handler.
DeleteKeybindingIn(st, viewname, key, mod) ==
    LET k == getKey(key)
        i == IndexIn(st.cur, viewname, k.key, k.ch, mod, 1)
    IN  IF k.err # NoErr \/ i = 0 THEN st
        ELSE [st EXCEPT !.cur = RemoveAt(st.cur, i),
                        !.arr = IF st.shared THEN ShiftDown(st.arr, i, Len(st.cur))
                                ELSE st.arr]

\* `s = append(s, kb)` for every kb with another scope, from binding i on.
RECURSIVE KeepFrom(_, _, _, _)
KeepFrom(s, viewname, i, kept) ==
    IF i > Len(s) THEN kept
    ELSE KeepFrom(s, viewname, i + 1,
                  IF s[i].viewName # viewname THEN Append(kept, s[i]) ELSE kept)

\* DeleteKeybindings called by a handler: g.keybindings becomes a new slice.
DeleteKeybindingsIn(st, viewname) ==
    [st EXCEPT !.cur = KeepFrom(st.cur, viewname, 1, <<>>), !.shared = FALSE]

\* SetManager called by a handler: `g.keybindings = nil`; the views, the
\* focus and the managers are replaced when the dispatch is over.
SetManagerIn(st) ==
    [st EXCEPT !.cur = <<>>, !.shared = FALSE, !.reset = TRUE]

\* `kb.handler(g, v)`: what the handler does to the Gui.
HandlerCalls(h, st) ==
    IF h = "unbind" THEN DeleteKeybindingIn(st, UnbindScope, UnbindKey, 0)
    ELSE IF h = "unbindall" THEN DeleteKeybindingsIn(st, UnbindScope)
    ELSE IF h = "reset" THEN SetManagerIn(st)
    ELSE st

\* What execKeybindings returns and leaves behind.
Dispatched(st, matched, err) ==
    [fired |-> st.fired, matched |-> matched, err |-> err, kbs |-> st.cur,
     reset |-> st.reset, ran |-> st.ran]

\* The loop of execKeybindings from place i on.
RECURSIVE ExecFrom(_, _, _, _)
ExecFrom(i, v, ev, st) ==
    IF i > Len(st.arr)
    THEN Dispatched(st, st.matched, NoErr)
    ELSE LET kb == st.arr[i]
             called == [st EXCEPT !.fired = Append(@, i),
                                  !.ran = Append(@, [kb |-> kb,
                                                     live |-> kb \in Range(st.cur)])]
             after == HandlerCalls(kb.handler, called)
         IN  IF kb.handler = NilHandler
             THEN ExecFrom(i + 1, v, ev, st)
             ELSE IF matchKeypress(kb, ev.key, ev.ch, ev.mod) /\ matchView(kb, v)
             THEN IF HandlerErr(kb.handler) # NoErr
                  THEN Dispatched(after, FALSE, HandlerErr(kb.handler))
                  ELSE ExecFrom(i + 1, v, ev, [after EXCEPT !.matched = TRUE])
             ELSE ExecFrom(i + 1, v, ev, st)

\* A dispatch that stops at the first matching binding.
execKeybindings_FirstMatch(v, ev) ==
    LET m == {i \in DOMAIN keybindings :
                 /\ keybindings[i].handler # NilHandler
                 /\ matchKeypress(keybindings[i], ev.key, ev.ch, ev.mod)
                 /\ matchView(keybindings[i], v)}
    IN  IF m = {}
        THEN Dispatched(StartDispatch, FALSE, NoErr)
        ELSE Dispatched([StartDispatch EXCEPT !.fired = <<Min(m)>>],
                        HandlerErr(keybindings[Min(m)].handler) = NoErr,
                        HandlerErr(keybindings[Min(m)].handler))

execKeybindings(v, ev) == ExecFrom(1, v, ev, StartDispatch)

\* What handling one event or callback did: the heap it leaves, the view the
\* bindings were matched against, the bindings fired, whether the editor of
\* the focused view was called, and the error returned; kbs, reset and ran
\* are those of the dispatch, if there was one.
Outcome(kind, ev, h, target, fired, edited, err) ==
    [kind |-> kind, ev |-> ev, heap |-> h, target |-> target, fired |-> fired,
     edited |-> edited, err |-> err, kbs |-> keybindings, reset |-> FALSE,
     ran |-> <<>>]

\* The outcome o of an event whose dispatch returned r.
With(o, r) == [o EXCEPT !.kbs = r.kbs, !.reset = r.reset, !.ran = r.ran]

\* An onKey that hands the key to the editor although a binding matched.
onKey_EditMatched(ev) ==
    IF ev.type = "key"
    THEN LET r == execKeybindings(currentView, ev)
         IN  IF r.err # NoErr
             THEN With(Outcome("key", ev, heap, currentView, r.fired, FALSE, r.err), r)
             ELSE With(Outcome("key", ev, heap, currentView, r.fired,
                               ~r.reset /\ currentView # Nil
                                  /\ heap[currentView].editable
                                  /\ heap[currentView].editor,
                               NoErr), r)
    ELSE LET hit == ViewByPosition(ev.x, ev.y)
         IN  IF hit.err # NoErr
             THEN Outcome("mouse", ev, heap, Nil, <<>>, FALSE, NoErr)
             ELSE LET v == hit.v
                      b == GetBounds(heap[v])
                      c == SetCursor(heap[v], ev.x - b[1] - 1, ev.y - b[3] - 1)
                  IN  IF c.err # NoErr
                      THEN Outcome("mouse", ev, heap, v, <<>>, FALSE, c.err)
                      ELSE LET r == execKeybindings(v, ev)
                           IN  With(Outcome("mouse", ev, [heap EXCEPT ![v] = c.view],
                                            v, r.fired, FALSE, r.err), r)

onKey(ev) ==
    IF ev.type = "key"
    THEN LET r == execKeybindings(currentView, ev)
         IN  IF r.err # NoErr
             THEN With(Outcome("key", ev, heap, currentView, r.fired, FALSE, r.err), r)
             ELSE IF r.matched
             THEN With(Outcome("key", ev, heap, currentView, r.fired, FALSE, NoErr), r)
             ELSE With(Outcome("key", ev, heap, currentView, r.fired,
                               currentView # Nil /\ heap[currentView].editable
                                  /\ heap[currentView].editor,
                               NoErr), r)
    ELSE LET hit == ViewByPosition(ev.x, ev.y)
         IN  IF hit.err # NoErr
             THEN Outcome("mouse", ev, heap, Nil, <<>>, FALSE, NoErr)
             ELSE LET v == hit.v
                      b == GetBounds(heap[v])
                      \* `x0, _, y0, _ := v.GetBounds()`
                      x0 == b[1]
                      y0 == b[3]
                      c == SetCursor(heap[v], ev.x - x0 - 1, ev.y - y0 - 1)
                  IN  IF c.err # NoErr
                      THEN Outcome("mouse", ev, heap, v, <<>>, FALSE, c.err)
                      ELSE LET r == execKeybindings(v, ev)
                           IN  With(Outcome("mouse", ev, [heap EXCEPT ![v] = c.view],
                                            v, r.fired, FALSE, r.err), r)

handleEvent(ev) ==
    IF ev.type \in {"key", "mouse"} THEN onKey(ev)
    ELSE IF ev.type = "error" THEN Outcome("error", ev, heap, Nil, <<>>, FALSE, ev.err)
    ELSE Outcome(ev.type, ev, heap, Nil, <<>>, FALSE, NoErr)

\* `ev.f(g)` for a callback queued by Update.
runCallback(f) == Outcome("callback", [f |-> f], heap, Nil, <<>>, FALSE, CallbackErr(f))

\* -------------------------------------------------------------------- flush
\* termbox.Size(): the terminal keeps this size.
TermX == 4
TermY == 4

\* The cursor of the terminal after termbox.HideCursor().
Hidden == [shown |-> FALSE, x |-> -1, y |-> -1]

\* The loop over g.managers in flush, from manager i on; ran lists the
\* managers whose Layout was called, by their place in g.managers.
RECURSIVE LayoutFrom(_, _)
LayoutFrom(i, ran) ==
    IF i > Len(managers) THEN [ran |-> ran, err |-> NoErr]
    ELSE IF LayoutErr(managers[i]) # NoErr
         THEN [ran |-> Append(ran, i), err |-> LayoutErr(managers[i])]
    ELSE LayoutFrom(i + 1, Append(ran, i))

\* `cx < 0 ? 0 : cx >= max ? max - 1 : cx` of draw.
Clamp(c, max) == IF c < 0 THEN 0 ELSE IF c >= max THEN max - 1 ELSE c

\* draw(v) with the view objects h and the terminal cursor hw: the cursor of
\* the terminal is managed for currentView, then v is rendered.  The error of
\* curview.SetCursor is not looked at.
draw(v, h, hw) ==
    LET cur == h[currentView]
        cx == Clamp(cur.cx, Size(cur)[1])
        cy == Clamp(cur.cy, Size(cur)[2])
        ax == cur.x0 + cx + 1
        ay == cur.y0 + cy + 1
        h1 == IF Cursor /\ currentView # Nil
              THEN [h EXCEPT ![currentView] = SetCursor(cur, cx, cy).view]
              ELSE h
        hw1 == IF ~Cursor THEN Hidden
               ELSE IF currentView = Nil THEN hw
               ELSE IF ax >= 0 /\ ax < TermX /\ ay >= 0 /\ ay < TermY
                    THEN [shown |-> TRUE, x |-> ax, y |-> ay]
                    ELSE Hidden
    IN  [heap |-> [h1 EXCEPT ![v] = Draw(@)], hw |-> hw1]

\* The loop over g.views in flush, from view i on.
RECURSIVE DrawFrom(_, _, _, _)
DrawFrom(i, h, hw, drawn) ==
    IF i > Len(views) THEN [heap |-> h, hw |-> hw, drawn |-> drawn]
    ELSE LET d == draw(views[i], h, hw)
         IN  DrawFrom(i + 1, d.heap, d.hw, Append(drawn, views[i]))

\* A flush that draws the views and flushes the terminal although a manager
\* failed.
flush_DrawAnyway ==
    LET l == LayoutFrom(1, <<>>)
        d == DrawFrom(1, heap, hwCursor, <<>>)
    IN  [heap |-> d.heap, hw |-> d.hw, done |-> Len(l.ran) + 1, err |-> l.err,
         pass |-> [layouts |-> l.ran, drawn |-> d.drawn, flushed |-> TRUE]]

\* flush: the managers lay out, every view of the list is drawn, and the
\* terminal is flushed; `done` counts the Layout calls plus the terminal
\* flush.  The terminal keeps its size and drawing a view does not fail.
flush ==
    LET l == LayoutFrom(1, <<>>)
        d == DrawFrom(1, heap, hwCursor, <<>>)
    IN  IF l.err # NoErr
        THEN [heap |-> heap, hw |-> hwCursor, done |-> Len(l.ran), err |-> l.err,
              pass |-> [layouts |-> l.ran, drawn |-> <<>>, flushed |-> FALSE]]
        ELSE [heap |-> d.heap, hw |-> d.hw, done |-> Len(l.ran) + 1, err |-> NoErr,
              pass |-> [layouts |-> l.ran, drawn |-> d.drawn, flushed |-> TRUE]]

\* ------------------------------------------------------------------ frames
\* Gui.SetRune on a terminal of mx columns and my rows.
SetRune(x, y, mx, my) ==
    IF x < 0 \/ y < 0 \/ x >= mx \/ y >= my THEN ErrInvalidPoint ELSE NoErr

\* The SetRune calls made so far by a drawing function and the error it has
\* returned, if any.
NoWrites == [writes |-> <<>>, err |-> NoErr]

\* `if err := g.SetRune(x, y, ...); err != nil { return err }` in state st of
\* a drawing function: nothing more happens once the function has returned.
Put(st, part, x, y, mx, my) ==
    IF st.err # NoErr THEN st
    ELSE [writes |-> Append(st.writes, [part |-> part, x |-> x, y |-> y]),
          err |-> SetRune(x, y, mx, my)]

\* `for x := x0 + 1; x < x1 && x < g.maxX; x++` of drawFrameEdges, from x on.
RECURSIVE HorizontalFrom(_, _, _, _, _)
HorizontalFrom(x, st, b, mx, my) ==
    IF ~(x < b[3] /\ x < mx) THEN st
    ELSE IF x < 0 THEN HorizontalFrom(x + 1, st, b, mx, my)
    ELSE LET top == IF b[2] > -1 /\ b[2] < my THEN Put(st, "edge", x, b[2], mx, my) ELSE st
             bot == IF b[4] > -1 /\ b[4] < my THEN Put(top, "edge", x, b[4], mx, my) ELSE top
         IN  HorizontalFrom(x + 1, bot, b, mx, my)

\* `for y := y0 + 1; y < y1 && y < g.maxY; y++` of drawFrameEdges, from y on.
RECURSIVE VerticalFrom(_, _, _, _, _)
VerticalFrom(y, st, b, mx, my) ==
    IF ~(y < b[4] /\ y < my) THEN st
    ELSE IF y < 0 THEN VerticalFrom(y + 1, st, b, mx, my)
    ELSE LET left  == IF b[1] > -1 /\ b[1] < mx THEN Put(st, "edge", b[1], y, mx, my) ELSE st
             right == IF b[3] > -1 /\ b[3] < mx THEN Put(left, "edge", b[3], y, mx, my) ELSE left
         IN  VerticalFrom(y + 1, right, b, mx, my)

\* drawFrameEdges for a view with bounds b = <<x0, y0, x1, y1>>.
drawFrameEdges(st, b, mx, my) ==
    IF st.err # NoErr THEN st
    ELSE VerticalFrom(b[2] + 1, HorizontalFrom(b[1] + 1, st, b, mx, my), b, mx, my)

\* `for _, c := range corners` of drawFrameCorners, from corner i on.
RECURSIVE CornersFrom(_, _, _, _, _)
CornersFrom(i, st, corners, mx, my) ==
    IF i > Len(corners) THEN st
    ELSE LET c == corners[i]
         IN  CornersFrom(i + 1,
                         IF c[1] >= 0 /\ c[2] >= 0 /\ c[1] < mx /\ c[2] < my
                         THEN Put(st, "corner", c[1], c[2], mx, my) ELSE st,
                         corners, mx, my)

drawFrameCorners(st, b, mx, my) ==
    IF st.err # NoErr THEN st
    ELSE CornersFrom(1, st, << <<b[1], b[2]>>, <<b[3], b[2]>>, <<b[1], b[4]>>, <<b[3], b[4]>> >>,
                     mx, my)

\* A title is given by the UTF-8 length of each of its runes: `for i, ch :=
\* range title` gives i the byte offset of the rune.
RECURSIVE TitleFrom(_, _, _, _, _, _, _)
TitleFrom(k, i, st, title, b, mx, my) ==
    IF k > Len(title) THEN st
    ELSE LET x == b[1] + i + 2
         IN  IF x < 0 THEN TitleFrom(k + 1, i + title[k], st, title, b, mx, my)
             ELSE IF x > b[3] - 2 \/ x >= mx THEN st
             ELSE TitleFrom(k + 1, i + title[k], Put(st, "title", x, b[2], mx, my),
                            title, b, mx, my)

\* A drawTitle without the test of the right edge of the terminal.
drawTitle_NoRightEdge(st, title, b, mx, my) ==
    IF st.err # NoErr THEN st
    ELSE IF b[2] < 0 \/ b[2] >= my THEN st
    ELSE TitleFrom(1, 0, st, title, b, b[3], my)

drawTitle(st, title, b, mx, my) ==
    IF st.err # NoErr THEN st
    ELSE IF b[2] < 0 \/ b[2] >= my THEN st
    ELSE TitleFrom(1, 0, st, title, b, mx, my)

\* The frame part of flush for one view: edges, corners, and the title if
\* there is one.
drawFrame(title, b, mx, my) ==
    LET e == drawFrameEdges(NoWrites, b, mx, my)
        c == drawFrameCorners(e, b, mx, my)
    IN  IF title # <<>> THEN drawTitle(c, title, b, mx, my) ELSE c

NoFrame ==
    [b |-> <<0, 0, 0, 0>>, mx |-> 0, my |-> 0, title |-> <<>>, writes |-> <<>>,
     err |-> NoErr]

\* flush draws the frame of a view with bounds b and the given title on a
\* terminal of mx columns and my rows.
DrawFrame(title, b, mx, my) ==
    /\ frame' = [b |-> b, mx |-> mx, my |-> my, title |-> title,
                 writes |-> drawFrame(title, b, mx, my).writes,
                 err |-> drawFrame(title, b, mx, my).err]
    /\ UNCHANGED <<guiVars, loopVars, Cursor, hwCursor, pass>>

\* ----------------------------------------------------------------- MainLoop
NoDispatch == Outcome("none", [type |-> "none"], <<>>, Nil, <<>>, FALSE, NoErr)

Logged(o) == [o EXCEPT !.heap = <<>>, !.kbs = <<>>]

\* What the handlers of a dispatch did to the Gui takes effect: the
\* bindings they removed, and the reset of a SetManager with the goroutine
\* it started.
AfterHandlers(o) ==
    /\ keybindings' = o.kbs
    /\ heap' = IF o.reset THEN Collect(o.heap, <<>>, Nil) ELSE o.heap
    /\ IF o.reset
       THEN /\ managers' = ResetManagers
            /\ views' = <<>>
            /\ currentView' = Nil
            /\ tbSenders' = tbSenders + 1
       ELSE UNCHANGED <<views, currentView, managers, tbSenders>>

\* MainLoop up to its first select: the event poller starts, the first
\* frame is drawn.
MainLoopStart ==
    /\ pc = "new"
    /\ heap' = flush.heap
    /\ nexec' = nexec + flush.done
    /\ pc' = IF flush.err # NoErr THEN "done" ELSE "select"
    /\ loopErr' = flush.err
    /\ ret' = Result("MainLoop", "", Nil, flush.err)
    /\ UNCHANGED <<views, currentView, keybindings, managers, tbSenders>>
    /\ UNCHANGED <<tbEvents, userEvents, userSenders, polled, updates, last>>
    /\ hwCursor' = flush.hw
    /\ pass' = flush.pass
    /\ UNCHANGED <<Cursor, frame>>

\* A loop that records the error of a handler or callback and goes on.
Handled_GoOn(o) ==
    /\ AfterHandlers(o)
    /\ last' = Logged(o)
    /\ nexec' = nexec + Len(o.fired) + (IF o.kind = "callback" THEN 1 ELSE 0)
    /\ pc' = "drain"
    /\ loopErr' = o.err
    /\ ret' = Result("MainLoop", "", Nil, o.err)
    /\ UNCHANGED <<userSenders, polled, updates, drawVars>>

\* The rest of a select case of MainLoop or consumeevents once the event or
\* callback was handled with outcome o: an error ends MainLoop, otherwise
\* consumeevents is entered or goes on.
Handled(o) ==
    /\ AfterHandlers(o)
    /\ last' = Logged(o)
    /\ nexec' = nexec + Len(o.fired) + (IF o.kind = "callback" THEN 1 ELSE 0)
    /\ pc' = IF o.err # NoErr THEN "done" ELSE "drain"
    /\ loopErr' = o.err
    /\ ret' = Result("MainLoop", "", Nil, o.err)
    /\ UNCHANGED <<userSenders, polled, updates, drawVars>>

\* `case ev := <-g.tbEvents` of the select in MainLoop.
SelectTb ==
    /\ pc = "select"
    /\ tbEvents # <<>>
    /\ tbEvents' = Tail(tbEvents)
    /\ Handled(handleEvent(Head(tbEvents)))
    /\ UNCHANGED userEvents

\* `case ev := <-g.userEvents` of the select in MainLoop.
SelectUser ==
    /\ pc = "select"
    /\ userEvents # <<>>
    /\ userEvents' = Tail(userEvents)
    /\ Handled(runCallback(Head(userEvents)))
    /\ UNCHANGED tbEvents

\* `case ev := <-g.tbEvents` of the select in consumeevents.
DrainTb ==
    /\ pc = "drain"
    /\ tbEvents # <<>>
    /\ tbEvents' = Tail(tbEvents)
    /\ Handled(handleEvent(Head(tbEvents)))
    /\ UNCHANGED userEvents

\* A consumeevents that takes a queued callback and drops it.
DrainUser_Discard ==
    /\ pc = "drain"
    /\ userEvents # <<>>
    /\ userEvents' = Tail(userEvents)
    /\ UNCHANGED <<guiVars, tbEvents, userSenders, pc, loopErr, polled, updates, last, nexec, drawVars>>

\* `case ev := <-g.userEvents` of the select in consumeevents.
DrainUser ==
    /\ pc = "drain"
    /\ userEvents # <<>>
    /\ userEvents' = Tail(userEvents)
    /\ Handled(runCallback(Head(userEvents)))
    /\ UNCHANGED tbEvents

\* `default` of the select in consumeevents, then the flush of MainLoop.
DrainDone ==
    /\ pc = "drain"
    /\ tbEvents = <<>>
    /\ userEvents = <<>>
    /\ heap' = flush.heap
    /\ nexec' = nexec + flush.done
    /\ pc' = IF flush.err # NoErr THEN "done" ELSE "select"
    /\ loopErr' = flush.err
    /\ ret' = Result("MainLoop", "", Nil, flush.err)
    /\ UNCHANGED <<views, currentView, keybindings, managers, tbSenders>>
    /\ UNCHANGED <<tbEvents, userEvents, userSenders, polled, updates, last>>
    /\ hwCursor' = flush.hw
    /\ pass' = flush.pass
    /\ UNCHANGED <<Cursor, frame>>

\* ---------------------------------------------------------------- producers
\* The goroutine of MainLoop: `g.tbEvents <- termbox.PollEvent()`.
Poll(ev) ==
    /\ pc # "new"
    /\ polled < MaxEvents
    /\ Len(tbEvents) < ChanCap
    /\ tbEvents' = Append(tbEvents, ev)
    /\ polled' = polled + 1
    /\ UNCHANGED <<guiVars, userEvents, userSenders, pc, loopErr, updates, last, nexec, drawVars>>

\* The goroutine of SetManager: `g.tbEvents <- termbox.Event{Type: termbox.EventResize}`.
SendResize ==
    /\ tbSenders > 0
    /\ Len(tbEvents) < ChanCap
    /\ tbEvents' = Append(tbEvents, ResizeEvent)
    /\ tbSenders' = tbSenders - 1
    /\ UNCHANGED <<views, heap, currentView, keybindings, managers, ret>>
    /\ UNCHANGED <<userEvents, userSenders, pc, loopErr, polled, updates, last, nexec, drawVars>>

\* Update starts a goroutine that will send the callback.
Update(f) ==
    /\ updates < MaxUpdates
    /\ updates' = updates + 1
    /\ userSenders' = [userSenders EXCEPT ![f] = @ + 1]
    /\ UNCHANGED <<guiVars, tbEvents, userEvents, pc, loopErr, polled, last, nexec, drawVars>>

\* The goroutine of Update: `g.userEvents <- userEvent{f: f}`.
SendUser(f) ==
    /\ userSenders[f] > 0
    /\ Len(userEvents) < ChanCap
    /\ userEvents' = Append(userEvents, f)
    /\ userSenders' = [userSenders EXCEPT ![f] = @ - 1]
    /\ UNCHANGED <<guiVars, tbEvents, pc, loopErr, polled, updates, last, nexec, drawVars>>

\* ------------------------------------------------------ the state at NewGui
Callbacks == {"ok", "fail"}

Init ==
    /\ views = <<>>
    /\ heap = [i \in ViewIds |-> NoView]
    /\ currentView = Nil
    /\ keybindings = <<>>
    /\ managers = <<>>
    /\ tbSenders = 0
    /\ ret = Result("NewGui", "", Nil, NoErr)
    /\ tbEvents = <<>>
    /\ userEvents = <<>>
    /\ userSenders = [f \in Callbacks |-> 0]
    /\ pc = "new"
    /\ loopErr = NoErr
    /\ polled = 0
    /\ updates = 0
    /\ last = Logged(NoDispatch)
    /\ nexec = 0
    /\ Cursor = FALSE
    /\ hwCursor = Hidden
    /\ pass = [layouts |-> <<>>, drawn |-> <<>>, flushed |-> FALSE]
    /\ frame = NoFrame

\* A call on the Gui made by the program outside MainLoop.
Call(A) == A /\ UNCHANGED <<loopVars, drawVars>>

\* ------------------------------------------- call sequences on a Gui (Spec)
\* Spec: every mutating call, three view names, and these SetView geometries:
\* two overlapping valid rectangles and one invalid one for each way the test
\* `x0 >= x1 || y0 >= y1` of SetView can hold (x0 = x1, x0 > x1, y0 = y1, y0 > y1).
ApiArgs ==
    {<<0, 0, 2, 2>>, <<0, 0, 3, 2>>,
     <<1, 0, 1, 2>>, <<2, 0, 0, 2>>, <<0, 1, 2, 1>>, <<0, 2, 2, 0>>}
\* The triggers, handlers and managers the callers of Spec use.
ApiKeys == {RuneValue(113), OtherValue(1)}
ApiHandlers == {"quit"}
ApiManagers == {<<"ok">>}

Next ==
    \/ \E n \in NameArgs, r \in ApiArgs : Call(SetView(n, r[1], r[2], r[3], r[4]))
    \/ \E n \in NameArgs : Call(SetViewOnTop(n))
    \/ \E n \in NameArgs : Call(SetViewOnBottom(n))
    \/ \E n \in NameArgs : Call(DeleteView(n))
    \/ \E n \in NameArgs : Call(SetCurrentView(n))
    \/ \E k \in ApiKeys, h \in ApiHandlers : Call(SetKeybinding("", k, 0, h))
    \/ \E ms \in ApiManagers : Call(SetManager(ms))

Spec == Init /\ [][Next]_vars

\* -------------------------------------------- geometry of views (SpecGeom)
\* SpecGeom: two view names and every valid SetView geometry over Coord.
ValidArgs(r) == r[1] < r[3] /\ r[2] < r[4]

GeomRects == {r \in Coord \X Coord \X Coord \X Coord : ValidArgs(r)}

GeomNames == {"a", "b"}

NextGeom ==
    \/ \E n \in GeomNames, r \in GeomRects : Call(SetView(n, r[1], r[2], r[3], r[4]))
    \/ \E n \in GeomNames : Call(SetViewOnTop(n))
    \/ \E n \in GeomNames : Call(SetViewOnBottom(n))
    \/ \E n \in GeomNames : Call(DeleteView(n))

SpecGeom == Init /\ [][NextGeom]_vars

\* ------------------------------------------- event dispatch (SpecDispatch)
\* SpecDispatch: the program sets up one view, its focus and keybindings of
\* either scope, then runs MainLoop while the terminal delivers key presses
\* and mouse clicks.
MouseLeft == KeyValue(2)

DispRect == <<0, 0, 2, 5>>
DispScopes == {"", "a"}
DispKeys == {RuneValue(113), MouseLeft}
DispHandlers == {"ok", "fail", NilHandler}
DispEvents ==
    {KeyEvent(0, 113, 0), MouseEvent(getKey(MouseLeft).key, 1, 1),
     MouseEvent(getKey(MouseLeft).key, 1, 3)}

NextDispatch ==
    \/ pc = "new" /\ Call(SetView("a", DispRect[1], DispRect[2], DispRect[3], DispRect[4]))
    \/ pc = "new" /\ Call(SetCurrentView("a"))
    \/ \E n \in DispScopes, k \in DispKeys, h \in DispHandlers :
          pc = "new" /\ Call(SetKeybinding(n, k, 0, h))
    \/ MainLoopStart
    \/ SelectTb
    \/ DrainTb
    \/ DrainDone
    \/ \E ev \in DispEvents : Poll(ev)

SpecDispatch == Init /\ [][NextDispatch]_vars

\* ------------------------------------------------- the main loop (SpecLoop)
\* SpecLoop: the program registers global keybindings and managers, then
\* runs MainLoop while the terminal delivers events and goroutines schedule
\* callbacks with Update.
LoopKeys == {RuneValue(113)}
LoopHandlers == {"ok", "quit"}
LoopManagers == {<<"ok">>, <<"fail">>}
LoopEvents == {KeyEvent(0, 113, 0), ErrorEvent(ErrTerminal)}

NextLoop ==
    \/ \E k \in LoopKeys, h \in LoopHandlers : pc = "new" /\ Call(SetKeybinding("", k, 0, h))
    \/ \E ms \in LoopManagers : pc = "new" /\ Call(SetManager(ms))
    \/ MainLoopStart
    \/ SelectTb
    \/ SelectUser
    \/ DrainTb
    \/ DrainUser
    \/ DrainDone
    \/ \E ev \in LoopEvents : Poll(ev)
    \/ SendResize
    \/ \E f \in Callbacks : pc # "new" /\ Update(f)
    \/ \E f \in Callbacks : SendUser(f)

SpecLoop == Init /\ [][NextLoop]_vars

\* ============================================================== properties
NameOf(v) == heap[v].name

Exists(name) == \E i \in DOMAIN views : NameOf(views[i]) = name

\* The fields of a view object that SetView may change on an update.
BoundsFields == {"x0", "y0", "x1", "y1", "tainted"}

\* C1: after any sequence of SetView, SetViewOnTop, SetViewOnBottom,
\* DeleteView, SetCurrentView and SetManager calls no two views of the view
\* list have the same name.
C1_UniqueNames ==
    \A i, j \in DOMAIN views : i # j => NameOf(views[i]) # NameOf(views[j])

\* SetView was called with a name already in use, among other views.
C1_Witness ==
    /\ ret.op = "SetView" /\ ret.err = NoErr
    /\ Len(views) = 3

\* C2: SetView with valid geometry and a non-empty name returns ErrUnknownView
\* exactly when no view of that name was in the list before the call; the new
\* view is then appended as the last element; otherwise the existing view is
\* returned with no error.
C2_SetViewCreatesOrUpdates ==
    [][(ret'.op = "SetView" /\ ValidArgs(ret'.args) /\ ret'.name # "") =>
          LET n == ret'.name
          IN  /\ ret'.err = ErrUnknownView <=> ~Exists(n)
              /\ ~Exists(n) =>
                    /\ ret'.v # Nil
                    /\ ret'.v \notin Range(views)
                    /\ views' = Append(views, ret'.v)
                    /\ heap'[ret'.v].name = n
              /\ Exists(n) =>
                    /\ ret'.err = NoErr
                    /\ ret'.v \in Range(views)
                    /\ NameOf(ret'.v) = n
                    /\ views' = views]_vars

\* SetView created a view on top of another one.
C2_Witness ==
    /\ ret.op = "SetView" /\ ret.err = ErrUnknownView
    /\ Len(views) >= 2
    /\ views[Len(views)] = ret.v

\* C3: SetView with a name that already exists leaves the length and order of
\* the view list, every other view, currentView and the keybindings
\* unchanged; of the named view only the bounds and the invalidation flag
\* change.
C3_SetViewUpdateFrame ==
    [][(ret'.op = "SetView" /\ ValidArgs(ret'.args) /\ Exists(ret'.name)) =>
          LET n == ret'.name
          IN  /\ views' = views
              /\ currentView' = currentView
              /\ keybindings' = keybindings
              /\ \A v \in ViewIds : NameOf(v) # n => heap'[v] = heap[v]
              /\ \A v \in Range(views) :
                    NameOf(v) = n =>
                       /\ \A f \in (DOMAIN heap[v]) \ BoundsFields : heap'[v][f] = heap[v][f]
                       /\ GetBounds(heap'[v]) = ret'.args
                       /\ heap'[v].tainted]_vars

\* SetView updated a view while other views, a focus and a binding exist.
C3_Witness ==
    /\ ret.op = "SetView" /\ ret.err = NoErr
    /\ Len(views) >= 2
    /\ currentView # Nil
    /\ keybindings # <<>>
    /\ GetBounds(heap[ret.v]) # GetBounds(heap[currentView])

\* C5: SetView returns no view and an error other than ErrUnknownView when
\* x0 >= x1 or y0 >= y1 or the name is empty, and then the view list, all view
\* objects, currentView and the keybindings are unchanged.
C5_SetViewRejects ==
    [][(ret'.op = "SetView" /\ (~ValidArgs(ret'.args) \/ ret'.name = "")) =>
          /\ ret'.v = Nil
          /\ ret'.err \notin {NoErr, ErrUnknownView}
          /\ UNCHANGED <<views, heap, currentView, keybindings>>]_vars

\* SetView was refused while views, a focus and a binding exist.
C5_Witness ==
    /\ ret.op = "SetView" /\ ret.err \in {ErrInvalidDimensions, ErrInvalidName}
    /\ views # <<>>
    /\ currentView # Nil
    /\ keybindings # <<>>

\* C6: currentView is none or an element of the view list.
C6_CurrentViewInList ==
    currentView = Nil \/ currentView \in Range(views)

\* C7: SetViewOnTop / SetViewOnBottom return ErrUnknownView and change
\* nothing when no view has the name; otherwise the named view becomes the
\* last / first element, the list holds the same views, the other views keep
\* their relative order and no view object changes.
Others(s, v) == SelectSeq(s, LAMBDA w : w # v)

Reordered(n, at) ==
    IF ~Exists(n)
    THEN /\ ret'.err = ErrUnknownView /\ ret'.v = Nil
         /\ UNCHANGED <<views, heap, currentView, keybindings, managers>>
    ELSE /\ ret'.err = NoErr
         /\ NameOf(ret'.v) = n
         /\ Len(views') = Len(views)
         /\ views'[IF at = "top" THEN Len(views') ELSE 1] = ret'.v
         /\ Range(views') = Range(views)
         /\ Others(views', ret'.v) = Others(views, ret'.v)
         /\ Len(Others(views', ret'.v)) = Len(views) - 1
         /\ UNCHANGED <<heap, currentView, keybindings, managers>>

C7_Reorder ==
    [][/\ ret'.op = "SetViewOnTop" => Reordered(ret'.name, "top")
       /\ ret'.op = "SetViewOnBottom" => Reordered(ret'.name, "bottom")]_vars

\* SetViewOnBottom moved a view below two others.
C7_Witness ==
    /\ ret.op = "SetViewOnBottom" /\ ret.err = NoErr
    /\ Len(views) = 3
    /\ views[1] = ret.v

\* C4: after SetView(name, x0, y0, x1, y1) with x0 < x1, y0 < y1 and a
\* non-empty name, whether it created or updated the view, ViewPosition(name)
\* returns (x0, y0, x1, y1) and no error, and keeps returning it until the
\* next SetView on that name, DeleteView of it, or SetManager.
C4_ViewPositionRoundTrip ==
    [][\A n \in GeomNames :
         /\ (ret'.op = "SetView" /\ ret'.name = n /\ ValidArgs(ret'.args)) =>
               ViewPosition(n)' = [pos |-> ret'.args, err |-> NoErr]
         /\ ( /\ ~(ret'.op \in {"SetView", "DeleteView"} /\ ret'.name = n)
              /\ ret'.op # "SetManager" ) =>
               ViewPosition(n)' = ViewPosition(n)]_vars

\* SetView moved a view that lies under another one.
C4_Witness ==
    /\ ret.op = "SetView" /\ ret.err = NoErr
    /\ Len(views) = 2
    /\ views[1] = ret.v
    /\ ViewPosition(ret.name).pos # ViewPosition(NameOf(views[2])).pos

\* C8: ViewByPosition(x, y) returns the view latest in the list whose bounds
\* satisfy x0 < x < x1 and y0 < y < y1, and ErrUnknownView when there is none;
\* so after a successful SetViewOnTop(n) every point strictly inside n's
\* bounds resolves to n.
Contains(v, x, y) ==
    heap[v].x0 < x /\ x < heap[v].x1 /\ heap[v].y0 < y /\ y < heap[v].y1

C8_TopmostHit ==
    \A x, y \in Coord :
       LET hit == {i \in DOMAIN views : Contains(views[i], x, y)}
       IN  /\ hit = {} => ViewByPosition(x, y) = [v |-> Nil, err |-> ErrUnknownView]
           /\ \A i \in hit :
                 (\A k \in hit : k <= i) => ViewByPosition(x, y) = [v |-> views[i], err |-> NoErr]
           /\ (ret.op = "SetViewOnTop" /\ ret.err = NoErr /\ Contains(ret.v, x, y)) =>
                 ViewByPosition(x, y).v = ret.v

\* SetViewOnTop raised a view over one that overlaps it.
C8_Witness ==
    /\ ret.op = "SetViewOnTop" /\ ret.err = NoErr
    /\ Len(views) = 2
    /\ \E x, y \in Coord : Contains(views[1], x, y) /\ Contains(views[2], x, y)

\* The bindings that match event ev for target view v and have a handler.
Matching(v, ev) ==
    {i \in DOMAIN keybindings :
        /\ keybindings[i].handler # NilHandler
        /\ keybindings[i].key = ev.key
        /\ keybindings[i].ch = ev.ch
        /\ keybindings[i].mod = ev.mod
        /\ (keybindings[i].viewName = ""
               \/ (v # Nil /\ keybindings[i].viewName = NameOf(v)))}

\* The matching bindings whose handler fails.
Failing(v, ev) == {i \in Matching(v, ev) : HandlerErr(keybindings[i].handler) # NoErr}

\* The matching bindings up to the first failing one.
Invoked(v, ev) == {i \in Matching(v, ev) : \A j \in Failing(v, ev) : i <= j}

DispatchFailure(v, ev) ==
    IF Failing(v, ev) = {} THEN NoErr
    ELSE HandlerErr(keybindings[Min(Failing(v, ev))].handler)

Increasing(s) == \A i, j \in DOMAIN s : i < j => s[i] < s[j]

\* A step of the loop that takes a key press from the terminal queue, or a
\* mouse click that hits a view and places its cursor.
Dispatches ==
    /\ Len(tbEvents') < Len(tbEvents)
    /\ keybindings' = keybindings
    /\ \/ Head(tbEvents).type = "key"
       \/ /\ Head(tbEvents).type = "mouse"
          /\ last'.target # Nil
          /\ last'.err # ErrInvalidPoint

\* C9: dispatching one input event calls the handler of every binding that
\* matches the event and the target view (the focused view for a key press,
\* the view hit for a mouse click), each once and in registration order,
\* without stopping at the first match; when a handler fails no binding
\* registered after it is called and its error is the result of the
\* dispatch.
C9_DispatchExhaustive ==
    [][Dispatches =>
          LET ev == Head(tbEvents)
              v == IF ev.type = "key" THEN currentView ELSE last'.target
          IN  /\ Increasing(last'.fired)
              /\ Range(last'.fired) = Invoked(v, ev)
              /\ last'.err = DispatchFailure(v, ev)]_vars

C9_Witness ==
    /\ last.kind = "key"
    /\ last.fired = <<1, 2>>
    /\ keybindings[1].viewName # keybindings[2].viewName
    /\ last.err = NoErr

\* The failure that handling the terminal event ev yields, if any.
TbFailure(ev) ==
    IF ev.type = "error" THEN ev.err
    ELSE IF ev.type = "key" THEN DispatchFailure(currentView, ev)
    ELSE NoErr

\* C10: when a keybinding handler, an Update callback or a terminal error
\* event fails in MainLoop, in its select or in consumeevents, MainLoop
\* returns exactly that error (ErrQuit for a handler returning ErrQuit), and
\* once MainLoop has returned the loop takes no event or callback and runs no
\* handler, callback, layout or flush.
C10_FailureEndsLoop ==
    [][/\ (Len(tbEvents') < Len(tbEvents) /\ TbFailure(Head(tbEvents)) # NoErr)
          => (pc' = "done" /\ loopErr' = TbFailure(Head(tbEvents))
                 /\ ret' = Result("MainLoop", "", Nil, TbFailure(Head(tbEvents))))
       /\ (Len(userEvents') < Len(userEvents) /\ CallbackErr(Head(userEvents)) # NoErr)
          => (pc' = "done" /\ loopErr' = CallbackErr(Head(userEvents))
                 /\ ret' = Result("MainLoop", "", Nil, CallbackErr(Head(userEvents))))
       /\ pc = "done"
          => /\ pc' = "done" /\ loopErr' = loopErr /\ ret' = ret
             /\ nexec' = nexec /\ last' = last /\ heap' = heap
             /\ Len(tbEvents') >= Len(tbEvents)
             /\ Len(userEvents') >= Len(userEvents)]_vars

C10_Witness ==
    /\ pc = "done"
    /\ loopErr = ErrQuit
    /\ last.kind = "key"
    /\ userEvents # <<>>
    /\ tbEvents # <<>>

\* --------------------------------------------- the binding table (SpecKeys)
\* SpecKeys: bindings of two scopes, a rune, a Key and a value of another
\* type, two modifiers and two handlers are registered and deleted.
KeysScopes == {"", "a"}
KeysKeys == {RuneValue(113), KeyValue(2), OtherValue(1)}
KeysMods == {0, 1}
KeysHandlers == {"ok", "fail"}

NextKeys ==
    \/ \E n \in KeysScopes, k \in KeysKeys, m \in KeysMods, h \in KeysHandlers :
          Call(SetKeybinding(n, k, m, h))
    \/ \E n \in KeysScopes, k \in KeysKeys, m \in KeysMods :
          Call(DeleteKeybinding(n, k, m))

SpecKeys == Init /\ [][NextKeys]_vars

\* ------------------------------------------------ the editor (SpecEdit)
\* SpecEdit: the program sets up one view, may focus it, make it editable
\* and take its editor away, registers bindings that match the key or not,
\* with or without a handler, then runs MainLoop while the terminal delivers
\* key presses and mouse clicks.
EditScopes == {"", "b"}
EditHandlers == {"ok", "fail", NilHandler}
EditEvents == {KeyEvent(0, 113, 0), MouseEvent(getKey(MouseLeft).key, 1, 3)}

NextEdit ==
    \/ pc = "new" /\ Call(SetView("a", DispRect[1], DispRect[2], DispRect[3], DispRect[4]))
    \/ pc = "new" /\ Call(SetCurrentView("a"))
    \/ pc = "new" /\ Call(SetEditable("a", TRUE))
    \/ pc = "new" /\ Call(SetEditor("a", FALSE))
    \/ \E n \in EditScopes, h \in EditHandlers :
          pc = "new" /\ Call(SetKeybinding(n, RuneValue(113), 0, h))
    \/ MainLoopStart
    \/ SelectTb
    \/ DrainTb
    \/ DrainDone
    \/ \E ev \in EditEvents : Poll(ev)

SpecEdit == Init /\ [][NextEdit]_vars

\* ------------------------------------------ replacing managers (SpecManager)
\* SpecManager: the program sets up a view, its focus and a global binding,
\* installs managers at any point of the setup, and runs MainLoop while the
\* terminal delivers key presses; the loop thread and the goroutine of
\* SetManager run whenever they can.
ManagerArgs == {<<"ok">>}
ManagerEvents == {KeyEvent(0, 113, 0)}

\* A step of the thread that runs MainLoop, callbacks aside.
TbLoopStep ==
    \/ MainLoopStart
    \/ SelectTb
    \/ DrainTb
    \/ DrainDone

NextManager ==
    \/ pc = "new" /\ Call(SetView("a", DispRect[1], DispRect[2], DispRect[3], DispRect[4]))
    \/ pc = "new" /\ Call(SetCurrentView("a"))
    \/ pc = "new" /\ Call(SetKeybinding("", RuneValue(113), 0, "ok"))
    \/ \E ms \in ManagerArgs : pc = "new" /\ Call(SetManager(ms))
    \/ TbLoopStep
    \/ \E ev \in ManagerEvents : Poll(ev)
    \/ SendResize

SpecManager ==
    Init /\ [][NextManager]_vars /\ WF_vars(TbLoopStep) /\ WF_vars(SendResize)

\* --------------------------------------------- progress of the loop (SpecLive)
\* SpecLive: the program installs managers and runs MainLoop while the
\* terminal delivers events and goroutines schedule callbacks; the loop
\* thread and the sender goroutines run whenever they can (a send blocked on
\* a full channel is resumed when a slot is free).
LiveManagers == {<<"ok">>}
LiveEvents == {KeyEvent(0, 113, 0), ErrorEvent(ErrTerminal)}

\* A step of the thread that runs MainLoop.
LoopStep ==
    \/ MainLoopStart
    \/ SelectTb
    \/ SelectUser
    \/ DrainTb
    \/ DrainUser
    \/ DrainDone

NextLive ==
    \/ \E ms \in LiveManagers : pc = "new" /\ Call(SetManager(ms))
    \/ LoopStep
    \/ \E ev \in LiveEvents : Poll(ev)
    \/ SendResize
    \/ \E f \in Callbacks : pc # "new" /\ Update(f)
    \/ \E f \in Callbacks : SendUser(f)

Fairness ==
    /\ WF_vars(LoopStep)
    /\ WF_vars(SendResize)
    /\ \A f \in Callbacks : WF_vars(SendUser(f))

SpecLive == Init /\ [][NextLive]_vars /\ Fairness

\* ------------------------------------------- render passes (SpecRender)
\* SpecRender: the program installs two or three managers, some of which
\* fail, and creates views, before MainLoop or when a key was pressed
\* (between the dispatch of the key and the flush that follows), while the
\* terminal delivers key presses.
RenderManagers == {<<"ok", "ok">>, <<"ok", "fail", "quit">>, <<"quit", "ok">>}
RenderNames == {"a", "b"}
RenderRect == <<0, 0, 2, 2>>
RenderEvents == {KeyEvent(0, 113, 0)}

NextRender ==
    \/ \E ms \in RenderManagers : pc = "new" /\ Call(SetManager(ms))
    \/ \E ms \in RenderManagers :
          /\ pc = "drain" /\ last.kind = "key" /\ tbEvents = <<>> /\ tbSenders = 0
          /\ Call(SetManager(ms))
    \/ \E n \in RenderNames :
          /\ pc \in {"new", "drain"}
          /\ Call(SetView(n, RenderRect[1], RenderRect[2], RenderRect[3], RenderRect[4]))
    \/ MainLoopStart
    \/ SelectTb
    \/ DrainTb
    \/ DrainDone
    \/ \E ev \in RenderEvents : Poll(ev)
    \/ SendResize

SpecRender == Init /\ [][NextRender]_vars

\* ----------------------------------------- the terminal cursor (SpecCursor)
\* Gui.SetCursor: `g.Cursor = c`.
Gui_SetCursor(c) ==
    /\ Cursor' = c
    /\ UNCHANGED <<guiVars, loopVars, hwCursor, pass, frame>>

\* The program calls SetCursor on a view it holds; the error is dropped.
View_SetCursor(name, x, y) ==
    /\ IndexOf(name) # 0
    /\ heap' = [heap EXCEPT ![views[IndexOf(name)]] = SetCursor(@, x, y).view]
    /\ UNCHANGED <<views, currentView, keybindings, managers, tbSenders, ret>>

\* SpecCursor: the program turns the cursor on and off, creates, resizes,
\* focuses and deletes one view and moves its cursor, before MainLoop or when
\* a key was pressed (between the dispatch of the key and the flush that
\* follows), while the terminal delivers key presses.  The views are 2x2,
\* 1x1 or 0x0 cells inside, and one has its content outside the terminal.
CursorRects == {<<0, 0, 3, 3>>, <<0, 0, 2, 2>>, <<0, 0, 1, 1>>, <<3, 3, 5, 5>>}
CursorEvents == {KeyEvent(0, 113, 0)}

\* The program is running code of its own on the thread of the Gui.
InProgram == pc = "new" \/ (pc = "drain" /\ last.kind = "key")

NextCursor ==
    \/ \E c \in BOOLEAN : InProgram /\ Gui_SetCursor(c)
    \/ \E r \in CursorRects : InProgram /\ Call(SetView("a", r[1], r[2], r[3], r[4]))
    \/ InProgram /\ Call(SetCurrentView("a"))
    \/ InProgram /\ Call(DeleteView("a"))
    \/ \E x, y \in 0 .. 1 : InProgram /\ Call(View_SetCursor("a", x, y))
    \/ MainLoopStart
    \/ SelectTb
    \/ DrainTb
    \/ DrainDone
    \/ \E ev \in CursorEvents : Poll(ev)

SpecCursor == Init /\ [][NextCursor]_vars

\* ------------------------------------- handlers that unbind (SpecUnbind)
\* SpecUnbind: the program creates and may focus view "a", binds the key q
\* for all views and for "a" to handlers that return nil, remove the binding
\* of "a", remove all bindings of "a" or replace the managers, then runs
\* MainLoop while the terminal delivers presses of q.
UnbindScopes == {"", UnbindScope}
UnbindHandlers == {"ok", "unbind", "unbindall", "reset"}
UnbindEvents == {KeyEvent(getKey(UnbindKey).key, getKey(UnbindKey).ch, 0)}

NextUnbind ==
    \/ pc = "new" /\ Call(SetView("a", DispRect[1], DispRect[2], DispRect[3], DispRect[4]))
    \/ pc = "new" /\ Call(SetCurrentView("a"))
    \/ \E n \in UnbindScopes, h \in UnbindHandlers :
          pc = "new" /\ Call(SetKeybinding(n, UnbindKey, 0, h))
    \/ MainLoopStart
    \/ SelectTb
    \/ DrainTb
    \/ DrainDone
    \/ \E ev \in UnbindEvents : Poll(ev)
    \/ SendResize

SpecUnbind == Init /\ [][NextUnbind]_vars

\* ------------------------------------------------ full queues (SpecFull)
\* An Update that sends the callback itself instead of starting a goroutine.
UpdateAgain_Send(f) ==
    /\ nexec < MaxExec
    /\ userSenders[f] < MaxSenders
    /\ Len(userEvents) < ChanCap
    /\ userEvents' = Append(userEvents, f)
    /\ UNCHANGED <<guiVars, tbEvents, userSenders, pc, loopErr, polled, updates, last, nexec, drawVars>>

\* Update, called any number of times as long as fewer than MaxExec
\* handlers, callbacks, layouts and flushes ran and fewer than MaxSenders of
\* its goroutines wait to send: `go func() { g.userEvents <- ... }()`.
UpdateAgain(f) ==
    /\ nexec < MaxExec
    /\ userSenders[f] < MaxSenders
    /\ userSenders' = [userSenders EXCEPT ![f] = @ + 1]
    /\ UNCHANGED <<guiVars, tbEvents, userEvents, pc, loopErr, polled, updates, last, nexec, drawVars>>

\* SpecFull: a handler, callback or layout of the program (code that runs on
\* the thread of MainLoop between a dispatch and the next select) calls
\* Update and SetManager again and again, so that both channels fill up; the
\* thread of MainLoop and the sender goroutines run whenever they can.
FullManagers == {<<"ok">>}

\* SetManager called by the program before MainLoop or on its thread.
SetManagerAgain(ms) ==
    /\ pc \in {"new", "drain"}
    /\ nexec < MaxExec
    /\ Call(SetManager(ms))

NextFull ==
    \/ \E ms \in FullManagers : SetManagerAgain(ms)
    \/ pc = "drain" /\ UpdateAgain("ok")
    \/ LoopStep
    \/ SendResize
    \/ SendUser("ok")

SpecFull ==
    Init /\ [][NextFull]_vars /\ WF_vars(LoopStep) /\ WF_vars(SendResize)
         /\ WF_vars(SendUser("ok"))

\* ------------------------------------------------ frames (SpecFrame)
\* SpecFrame: frames are drawn for every view bounds with x0 < x1 and
\* y0 < y1 between -2 and MaxFrame, every terminal of 0 to MaxTerm columns
\* and rows, and every title of up to MaxTitle runes of one or two bytes.
FrameCoord == -2 .. MaxFrame
FrameRects ==
    {b \in FrameCoord \X FrameCoord \X FrameCoord \X FrameCoord : b[1] < b[3] /\ b[2] < b[4]}
TermSizes == 0 .. MaxTerm
Titles == UNION {[1 .. n -> {1, 2}] : n \in 0 .. MaxTitle}

\* What a frame drawing does depends on its arguments only, so one frame is
\* drawn in each behaviour.
NextFrame ==
    /\ frame = NoFrame
    /\ \E title \in Titles, b \in FrameRects, mx \in TermSizes, my \in TermSizes :
          DrawFrame(title, b, mx, my)

SpecFrame == Init /\ [][NextFrame]_vars

\* ------------------------------------------- a burst of input (SpecBurst)
\* The goroutine of MainLoop, `for { g.tbEvents <- termbox.PollEvent() }`,
\* with a terminal that has input as long as fewer than MaxExec handlers,
\* callbacks, layouts and flushes ran: the number of events it delivers
\* between two flushes is not bounded.
PollOn(ev) ==
    /\ pc # "new"
    /\ nexec < MaxExec
    /\ Len(tbEvents) < ChanCap
    /\ tbEvents' = Append(tbEvents, ev)
    /\ UNCHANGED <<guiVars, userEvents, userSenders, pc, loopErr, polled, updates, last, nexec, drawVars>>

\* SpecBurst: the program may install a manager, no key is bound, MainLoop
\* runs while the terminal keeps delivering key presses and a goroutine
\* schedules a callback.  The thread of MainLoop runs whenever it can, and
\* a case of a select that is ready again and again is taken.
BurstManagers == {<<"ok">>}
BurstEvents == {KeyEvent(0, 113, 0)}

NextBurst ==
    \/ \E ms \in BurstManagers : pc = "new" /\ Call(SetManager(ms))
    \/ LoopStep
    \/ \E ev \in BurstEvents : PollOn(ev)
    \/ SendResize
    \/ pc # "new" /\ Update("ok")
    \/ SendUser("ok")

BurstFairness ==
    /\ WF_vars(MainLoopStart)
    /\ SF_vars(SelectTb) /\ SF_vars(SelectUser)
    /\ SF_vars(DrainTb) /\ SF_vars(DrainUser) /\ SF_vars(DrainDone)
    /\ WF_vars(SendResize)
    /\ WF_vars(SendUser("ok"))

SpecBurst == Init /\ [][NextBurst]_vars /\ BurstFairness

\* A step of the loop that takes a mouse click which hits a view.
MouseHit ==
    /\ Len(tbEvents') < Len(tbEvents)
    /\ Head(tbEvents).type = "mouse"
    /\ \E i \in DOMAIN views : Contains(views[i], Head(tbEvents).x, Head(tbEvents).y)

\* C11: a mouse click at (mx, my) that hits a view with bounds
\* (x0, y0, x1, y1) sets the cursor of that view to (mx - x0 - 1, my - y0 - 1),
\* then the bindings are dispatched against that view, and the click alone
\* does not end MainLoop.
C11_MouseCursor ==
    [][MouseHit =>
          LET ev == Head(tbEvents)
              v == ViewByPosition(ev.x, ev.y).v
          IN  /\ heap'[v].cx = ev.x - heap[v].x0 - 1
              /\ heap'[v].cy = ev.y - heap[v].y0 - 1
              /\ last'.target = v
              /\ Range(last'.fired) = Invoked(v, ev)
              /\ (DispatchFailure(v, ev) = NoErr => pc' # "done")]_vars

ResizeQueued == \E i \in DOMAIN tbEvents : tbEvents[i].type = "resize"

\* C12: SetManager makes the manager list exactly the managers given and
\* leaves the view list empty, the focus none and the keybinding list
\* empty, whatever they were; it schedules one resize event, and a running
\* MainLoop receives every scheduled resize event and then lays out and
\* renders.
C12_SetManagerResets ==
    /\ [][tbSenders' > tbSenders =>
             /\ ret'.op = "SetManager"
             /\ managers' = ret'.args
             /\ views' = <<>>
             /\ currentView' = Nil
             /\ keybindings' = <<>>
             /\ tbSenders' = tbSenders + 1
             /\ tbEvents' = tbEvents]_vars
    /\ [][Len(tbEvents') > Len(tbEvents) /\ tbSenders' < tbSenders =>
             tbSenders' = tbSenders - 1 /\ tbEvents' = Append(tbEvents, ResizeEvent)]_vars
    /\ (tbSenders > 0 \/ ResizeQueued)
          ~> (pc = "done" \/ (tbSenders = 0 /\ ~ResizeQueued /\ pc = "select"))

C12_Witness ==
    /\ managers # <<>>
    /\ tbSenders = 0
    /\ ~ResizeQueued
    /\ pc = "select"
    /\ tbEvents # <<>>

\* The callbacks f handed to Update that have not been executed yet: held by
\* a goroutine of Update or waiting in g.userEvents.
Pending(f) ==
    userSenders[f] + Cardinality({i \in DOMAIN userEvents : userEvents[i] = f})

SameBinding(n, k, m) ==
    {i \in DOMAIN keybindings :
        /\ keybindings[i].viewName = n
        /\ keybindings[i].key = k.key
        /\ keybindings[i].ch = k.ch
        /\ keybindings[i].mod = m}

MatchingAny(v, ev) ==
    {i \in DOMAIN keybindings :
        /\ keybindings[i].key = ev.key
        /\ keybindings[i].ch = ev.ch
        /\ keybindings[i].mod = ev.mod
        /\ (keybindings[i].viewName = ""
               \/ (v # Nil /\ keybindings[i].viewName = NameOf(v)))}

\* The focused view is set, editable and has an editor.
CanEdit ==
    currentView # Nil /\ heap[currentView].editable /\ heap[currentView].editor

\* A step of the loop that takes a key press or a mouse click.
TakesInput ==
    Len(tbEvents') < Len(tbEvents) /\ Head(tbEvents).type \in {"key", "mouse"}

C16_DrainReachesRender == (pc = "drain") ~> (pc = "select" \/ pc = "done")

\* A step in which MainLoop runs flush: its first flush, or the flush after
\* consumeevents.
RenderStep ==
    \/ pc = "new" /\ pc' # "new"
    \/ pc = "drain" /\ pc' # "drain" /\ tbEvents' = tbEvents /\ userEvents' = userEvents

\* The managers whose Layout fails.
FailingManagers == {i \in DOMAIN managers : LayoutErr(managers[i]) # NoErr}

\* The last manager a render pass calls: the first that fails, or the last
\* of the list.
LastCalled ==
    IF FailingManagers = {} THEN Len(managers)
    ELSE CHOOSE i \in FailingManagers : \A j \in FailingManagers : i <= j

\* C17: in every render pass the Layout callbacks of the managers are called
\* in registration order, each at most once; when one fails no later manager
\* is called, no view is drawn, the terminal is not flushed in that pass and
\* MainLoop returns that failure.
C17_LayoutInOrder ==
    [][RenderStep =>
          /\ pass'.layouts = [i \in 1 .. LastCalled |-> i]
          /\ nexec' - nexec = LastCalled + (IF FailingManagers = {} THEN 1 ELSE 0)
          /\ FailingManagers # {} =>
                /\ pass'.drawn = <<>>
                /\ ~pass'.flushed
                /\ heap' = heap
                /\ hwCursor' = hwCursor
                /\ pc' = "done"
                /\ loopErr' = LayoutErr(managers[LastCalled])
                /\ ret' = Result("MainLoop", "", Nil, LayoutErr(managers[LastCalled]))]_vars

\* A render pass after the first one stopped at the second of three managers
\* and left a view undrawn.
C17_Witness ==
    /\ pc = "done"
    /\ loopErr = ErrLayout
    /\ Len(managers) = 3
    /\ pass.layouts = <<1, 2>>
    /\ ~pass.flushed
    /\ nexec >= 5
    /\ views # <<>>
    /\ heap[views[1]].tainted

\* The place on the terminal of the stored cursor of view object v.
CursorPoint(v) == <<v.x0 + v.cx + 1, v.y0 + v.cy + 1>>

OnTerminal(p) == p[1] >= 0 /\ p[1] < TermX /\ p[2] >= 0 /\ p[2] < TermY

\* C18: after every render pass that succeeds, the terminal cursor is hidden
\* if g.Cursor is off; if g.Cursor is on and a view has the focus, the
\* stored cursor of that view lies in [0, width) x [0, height) of its content
\* and the terminal cursor is shown at (x0+cx+1, y0+cy+1) when that point is
\* on the terminal, hidden otherwise; for every view list, the empty one
\* included.
C18_CursorAfterRender ==
    [][(RenderStep /\ pc' = "select") =>
          /\ ~Cursor => hwCursor' = Hidden
          /\ (Cursor /\ currentView # Nil) =>
                LET v == heap'[currentView]
                IN  /\ v.cx >= 0 /\ v.cx < Size(v)[1]
                    /\ v.cy >= 0 /\ v.cy < Size(v)[2]
                    /\ hwCursor' = IF OnTerminal(CursorPoint(v))
                                   THEN [shown |-> TRUE, x |-> CursorPoint(v)[1],
                                         y |-> CursorPoint(v)[2]]
                                   ELSE Hidden]_vars

\* C19: for every view bounds with x0 < x1 and y0 < y1 and every terminal
\* size, drawing the edges, the corners and the title of the frame calls
\* SetRune only for points of [0, maxX) x [0, maxY) and returns no error;
\* the runes of the title are written on row y0 only, in columns x0+2 to
\* x1-2.
C19_FrameInBounds ==
    /\ frame.err = NoErr
    /\ \A i \in DOMAIN frame.writes :
          LET w == frame.writes[i]
          IN  /\ w.x >= 0 /\ w.x < frame.mx
              /\ w.y >= 0 /\ w.y < frame.my
              /\ w.part = "title" =>
                    /\ w.y = frame.b[2]
                    /\ w.x >= frame.b[1] + 2
                    /\ w.x <= frame.b[3] - 2

\* A frame that is partly left of and partly right of the terminal was drawn
\* with edges and two runes of a title whose first rune takes two bytes.
C19_Witness ==
    /\ frame.b[1] < 0
    /\ frame.b[3] > frame.mx
    /\ frame.b[4] < frame.my
    /\ frame.title # <<>> /\ frame.title[1] = 2
    /\ \E i, k, l \in DOMAIN frame.writes :
          /\ frame.writes[i].part = "edge"
          /\ frame.writes[k].part = "title" /\ frame.writes[l].part = "title" /\ k # l

BothFull == Len(tbEvents) = ChanCap /\ Len(userEvents) = ChanCap

\* C20: the thread of MainLoop waits only in the select of MainLoop with
\* both channels empty.  Update and SetManager called on that thread return
\* whatever the channels hold, also when both hold 20 entries (they touch no
\* channel: the send is left to a goroutine); consumeevents always has a step
\* to take; and full channels are drained by the loop.
C20_LoopNeverBlocks ==
    /\ [](pc = "drain" /\ nexec < MaxExec =>
            /\ userSenders["ok"] < MaxSenders => ENABLED UpdateAgain("ok")
            /\ tbSenders < MaxSenders => \A ms \in FullManagers : ENABLED SetManagerAgain(ms))
    /\ [][/\ userSenders' # userSenders /\ userEvents' = userEvents
             => tbEvents' = tbEvents /\ pc' = pc
          /\ managers' # managers \/ tbSenders' > tbSenders
             => tbEvents' = tbEvents /\ userEvents' = userEvents /\ pc' = pc]_vars
    /\ [](pc = "drain" => ENABLED LoopStep)
    /\ [](pc = "select" => (ENABLED LoopStep <=> (tbEvents # <<>> \/ userEvents # <<>>)))
    /\ (BothFull /\ pc # "done") ~> (~BothFull \/ pc = "done")

\* Update and SetManager have returned on the thread of MainLoop although
\* both channels were full: their goroutines wait to send.
C20_Witness ==
    /\ BothFull
    /\ pc = "drain"
    /\ userSenders["ok"] > 0
    /\ tbSenders > 0

\* How often binding kb was called in the dispatch logged last.
TimesRan(log, kb) == Cardinality({k \in DOMAIN log : log[k].kb = kb})

\* How often binding kb is registered.
TimesBound(kb) == Cardinality({i \in DOMAIN keybindings : keybindings[i] = kb})

\* C21: during the dispatch of one input event the handler of each
\* registered binding is called at most once, and no binding is called after
\* it was removed, also when a handler called in that dispatch calls
\* DeleteKeybinding, DeleteKeybindings or SetManager.
C21_OncePerDispatch ==
    [][TakesInput =>
          /\ \A k \in DOMAIN last'.ran : last'.ran[k].live
          /\ \A kb \in Range(keybindings) : TimesRan(last'.ran, kb) <= TimesBound(kb)]_vars

====
